---- MODULE Spec2Model ----
(***************************************************************************)
(* SignifyLearn API (src/main.py): the route handlers over the six         *)
(* document collections gesture, module, quizquestion, favorite, user and  *)
(* progress, and the startup seed step.                                    *)
(*                                                                         *)
(* A collection is the sequence of its documents in insertion order; a     *)
(* document is a record and may lack fields (the handlers read them with   *)
(* dict.get and a default).  A gesture's name is a sequence of characters, *)
(* so that the $regex filter is computed and not assumed.                  *)
(***************************************************************************)
EXTENDS Integers, Sequences, FiniteSets, TLC

VARIABLES dbAvail, collections, gesture, module, quizquestion,
          favorite, user, progress, last, procs

store == <<collections, gesture, module, quizquestion, favorite, user, progress>>
vars == <<dbAvail, collections, gesture, module, quizquestion,
          favorite, user, progress, last, procs>>

\* ------------------------------------------------------------------ bounds
MaxPage == 3
MaxPageSize == 2
NumRequests == 3

\* --------------------------------------------------------- python helpers
None == "None"

\* dict.get(k, d)
Get(doc, k, d) == IF k \in DOMAIN doc THEN doc[k] ELSE d

\* a filter of equalities {k: v, ...} on a document
Matches(doc, filter) == \A k \in DOMAIN filter : k \in DOMAIN doc /\ doc[k] = filter[k]

\* pymongo find(filter): the matching documents in natural (insertion) order
Find(coll, filter) == SelectSeq(coll, LAMBDA d : Matches(d, filter))

\* pymongo find_one(filter): the first matching document, or None (NoDoc: the
\* None a document is expected in, kept a record so that it compares with one)
NoDoc == [none |-> TRUE]
FindOne(coll, filter) ==
    LET m == Find(coll, filter) IN IF Len(m) = 0 THEN NoDoc ELSE m[1]

\* pymongo cursor.skip(n), n >= 0
Skip(s, n) == IF n >= Len(s) THEN <<>> ELSE SubSeq(s, n + 1, Len(s))

\* pymongo cursor.limit(n): 0 is "no limit", a negative n limits to -n
Limit(s, n) ==
    LET k == IF n < 0 THEN 0 - n ELSE n
    IN  IF n = 0 \/ k >= Len(s) THEN s ELSE SubSeq(s, 1, k)

Lower(c) ==
    CASE c = "A" -> "a" [] c = "B" -> "b" [] c = "H" -> "h"
      [] c = "K" -> "k" [] c = "T" -> "t" [] OTHER -> c

\* {"$regex": q, "$options": "i"} for patterns of literal characters and ".":
\* an unanchored, case-insensitive search of the pattern in the name
RegexSearchI(q, name) ==
    \E i \in 0..(Len(name) - Len(q)) :
        \A j \in 1..Len(q) : q[j] = "." \/ Lower(q[j]) = Lower(name[i + j])

\* a plain case-insensitive substring test (no metacharacters)
SubstringI(q, name) ==
    \E i \in 0..(Len(name) - Len(q)) :
        \A j \in 1..Len(q) : Lower(q[j]) = Lower(name[i + j])

Ok(body) == [status |-> 200, body |-> body]
HTTPException(code, detail) == [status |-> code, detail |-> detail]
ServerError == [status |-> 500, detail |-> "Internal Server Error"]

\* ---------------------------------------------------------------- seed data
SeedGestures == <<
    [name |-> <<"A">>, slug |-> "a", category |-> "A-Z", difficulty |-> "Pemula",
     thumbnail |-> "/gestures/a.png", video_url |-> "https://videos.example.com/a.mp4",
     steps |-> <<"Angkat tangan kanan", "Bentuk huruf A">>,
     examples |-> <<"Nama saya">>, tags |-> <<"alphabet", "basic">>],
    [name |-> <<"B">>, slug |-> "b", category |-> "A-Z", difficulty |-> "Pemula",
     thumbnail |-> "/gestures/b.png", video_url |-> "https://videos.example.com/b.mp4",
     steps |-> <<"Angkat tangan", "Bentuk huruf B">>,
     examples |-> <<"Belajar">>, tags |-> <<"alphabet", "basic">>],
    [name |-> <<"T","e","r","i","m","a"," ","K","a","s","i","h">>,
     slug |-> "terima-kasih", category |-> "Kata Dasar", difficulty |-> "Pemula",
     thumbnail |-> "/gestures/terima-kasih.png",
     video_url |-> "https://videos.example.com/thanks.mp4",
     steps |-> <<"Sentuh dagu", "Gerakkan tangan menjauh">>,
     examples |-> <<"Terima kasih atas bantuanmu">>, tags |-> <<"basic", "courtesy">>] >>

SeedModules == <<
    [title |-> "Dasar-Dasar Bahasa Isyarat", slug |-> "dasar-dasar",
     summary |-> "Mulai dari alfabet, angka, dan salam", cover |-> "/covers/basic.png",
     lessons |-> <<"Alfabet", "Angka", "Salam">>, difficulty |-> "Pemula"],
    [title |-> "Ekspresi Emosi", slug |-> "ekspresi-emosi",
     summary |-> "Bahasa isyarat untuk emosi umum", cover |-> "/covers/emotion.png",
     lessons |-> <<"Senang", "Sedih", "Marah">>, difficulty |-> "Menengah"] >>

SeedQuizzes == <<
    [module_slug |-> "dasar-dasar", prompt |-> "Gestur mana yang berarti 'Terima Kasih'?",
     media |-> None,
     options |-> <<"Sentuh dagu lalu jauhkan tangan", "Kepal tangan", "Telapak ke atas">>,
     answer_index |-> 0] >>

\* Documents a store may hold before the service first starts: written by
\* another client, some without the optional fields.
OldGesture == [name |-> <<"H","a","l","o">>, slug |-> "halo", category |-> "Kata Dasar"]
OldModule == [title |-> "Angka", slug |-> "angka"]
OldQuiz == [module_slug |-> "angka", prompt |-> "Berapa?", options |-> <<"1", "2">>]
OldUser == [name |-> "Budi", email |-> "budi@x.id", points |-> 7]

\* ------------------------------------------------------------ request inputs
Emails == {"ani@x.id", "budi@x.id"}
GestureSlugs == {"a", "b", "terima-kasih", "halo", "zzz"}
ModuleSlugs == {"dasar-dasar", "ekspresi-emosi", "angka", "zzz"}
\* Optional[str] q: <<>> is None, <<s>> is the string s (a character sequence)
Queries == {<<>>, <<<<>>>>, <<<<"a">>>>, <<<<"B">>>>, <<<<"k","A">>>>, <<<<".">>>>}
Categories == {None, "A-Z", "Kata Dasar"}
Pages == 0..MaxPage
PageSizes == 0..MaxPageSize
FavSlugs == {"a", "zzz"}
ProgModules == {"dasar-dasar"}
LessonLists == {<<0, 1>>, <<2>>}
SmallQueries == {<<>>, <<<<"a">>>>}
SmallCategories == {None, "A-Z"}
SmallPages == {1}
SmallPageSizes == {1}
SmallEmails == {"ani@x.id"}
SmallFavSlugs == {"a"}
SmallLessonLists == {<<2>>}

\* ------------------------------------------------------------------- state
Procs == 1..NumRequests
Idle == [pc |-> "idle", op |-> "none", arg |-> <<>>, found |-> FALSE, ret |-> [status |-> 0]]
NoRequest == [op |-> "none", arg |-> <<>>, pre |-> <<>>, ret |-> [status |-> 0]]
SeededNames == {"gesture", "module", "quizquestion"}

\* What the store may hold when the process is first started.
StoreBefore ==
    /\ dbAvail \in BOOLEAN
    /\ gesture \in {<<>>, <<OldGesture>>}
    /\ module \in {<<>>, <<OldModule>>}
    /\ quizquestion \in {<<>>, <<OldQuiz>>}
    /\ \E present \in SUBSET SeededNames :
         collections = present \cup {n \in {"gesture"} : gesture # <<>>}
                               \cup {n \in {"module"} : module # <<>>}
                               \cup {n \in {"quizquestion"} : quizquestion # <<>>}
    /\ favorite = <<>>
    /\ user = <<>>
    /\ progress = <<>>

Init ==
    /\ StoreBefore
    /\ last = NoRequest
    /\ procs = [p \in Procs |-> Idle]

\* a request is served only once the module has been imported (line 141)
Started == last.op # "none"

Respond(op, arg, pre, ret) == last' = [op |-> op, arg |-> arg, pre |-> pre, ret |-> ret]

\* ------------------------------------------------------------ seed step
\* the seed condition without the count_documents test
NeedsSeed_AbsentOnly(name, coll) == name \notin collections

NeedsSeed(name, coll) == name \notin collections \/ Len(coll) = 0

\* insert_many(batch) when the collection is absent or empty
SeedInto(name, coll, batch) == IF NeedsSeed(name, coll) THEN coll \o batch ELSE coll

EnsureSeedData ==
    /\ IF ~dbAvail
         THEN UNCHANGED store
         ELSE /\ gesture' = SeedInto("gesture", gesture, SeedGestures)
              /\ module' = SeedInto("module", module, SeedModules)
              /\ quizquestion' = SeedInto("quizquestion", quizquestion, SeedQuizzes)
              /\ collections' = collections \cup SeededNames
              /\ UNCHANGED <<favorite, user, progress>>
    /\ Respond("ensure_seed_data", <<>>,
               <<NeedsSeed("gesture", gesture), NeedsSeed("module", module),
                 NeedsSeed("quizquestion", quizquestion)>>, Ok(None))
    /\ UNCHANGED <<dbAvail, procs>>

\* ------------------------------------------------------------- gestures
Truthy(q) == Len(q) = 1 /\ Len(q[1]) > 0

GestureFilter(q, category, g) ==
    /\ Truthy(q) => ("name" \in DOMAIN g /\ RegexSearchI(q[1], g.name))
    /\ category \notin {None, ""} => Get(g, "category", None) = category

GestureOut(g) ==
    [name |-> Get(g, "name", None), slug |-> Get(g, "slug", None),
     category |-> Get(g, "category", None),
     difficulty |-> Get(g, "difficulty", "Pemula"),
     thumbnail |-> Get(g, "thumbnail", None)]

GestureDetail(doc) ==
    [name |-> Get(doc, "name", None), slug |-> Get(doc, "slug", None),
     category |-> Get(doc, "category", None),
     difficulty |-> Get(doc, "difficulty", "Pemula"),
     thumbnail |-> Get(doc, "thumbnail", None),
     video_url |-> Get(doc, "video_url", None),
     steps |-> Get(doc, "steps", <<>>), examples |-> Get(doc, "examples", <<>>),
     tags |-> Get(doc, "tags", <<>>)]

\* the response of list_gestures; cursor.skip raises ValueError on a negative
\* offset, which the framework turns into a 500
list_gestures(q, category, page, page_size) ==
    IF ~dbAvail THEN Ok(<<>>)
    ELSE LET matched == SelectSeq(gesture, LAMBDA g : GestureFilter(q, category, g))
             offset == (page - 1) * page_size
             cursor == Limit(Skip(matched, offset), page_size)
         IN  IF offset < 0 THEN ServerError
             ELSE Ok([i \in 1..Len(cursor) |-> GestureOut(cursor[i])])

ListGestures(q, category, page, page_size) ==
    /\ Started
    /\ Respond("list_gestures", <<q, category, page, page_size>>, <<>>,
               list_gestures(q, category, page, page_size))
    /\ UNCHANGED <<dbAvail, store, procs>>

\* get_gesture projecting whatever find_one returned
get_gesture_NoMissCheck(slug) ==
    IF ~dbAvail THEN HTTPException(404, "Not found")
    ELSE Ok(GestureDetail(FindOne(gesture, [slug |-> slug])))

get_gesture(slug) ==
    IF ~dbAvail THEN HTTPException(404, "Not found")
    ELSE LET doc == FindOne(gesture, [slug |-> slug])
         IN  IF doc = NoDoc THEN HTTPException(404, "Gesture not found")
             ELSE Ok(GestureDetail(doc))

GetGesture(slug) ==
    /\ Started
    /\ Respond("get_gesture", slug, <<>>, get_gesture(slug))
    /\ UNCHANGED <<dbAvail, store, procs>>

\* -------------------------------------------------------------- modules
ModuleOut(m) ==
    [title |-> Get(m, "title", None), slug |-> Get(m, "slug", None),
     summary |-> Get(m, "summary", None), cover |-> Get(m, "cover", None),
     difficulty |-> Get(m, "difficulty", "Pemula")]

ModuleDetail(m) ==
    [title |-> Get(m, "title", None), slug |-> Get(m, "slug", None),
     summary |-> Get(m, "summary", None), cover |-> Get(m, "cover", None),
     lessons |-> Get(m, "lessons", <<>>),
     difficulty |-> Get(m, "difficulty", "Pemula")]

\* list_modules without the test of db: db["module"] on None raises
list_modules_NoDbCheck == IF ~dbAvail THEN ServerError ELSE Ok([i \in 1..Len(module) |-> ModuleOut(module[i])])

list_modules == IF ~dbAvail THEN Ok(<<>>) ELSE Ok([i \in 1..Len(module) |-> ModuleOut(module[i])])

ListModules ==
    /\ Started
    /\ Respond("list_modules", <<>>, <<>>, list_modules)
    /\ UNCHANGED <<dbAvail, store, procs>>

get_module(slug) ==
    IF ~dbAvail THEN HTTPException(404, "Not found")
    ELSE LET m == FindOne(module, [slug |-> slug])
         IN  IF m = NoDoc THEN HTTPException(404, "Module not found")
             ELSE Ok(ModuleDetail(m))

GetModule(slug) ==
    /\ Started
    /\ Respond("get_module", slug, <<>>, get_module(slug))
    /\ UNCHANGED <<dbAvail, store, procs>>

\* -------------------------------------------------------------- quizzes
QuizOut(q) ==
    [module_slug |-> Get(q, "module_slug", None), prompt |-> Get(q, "prompt", None),
     media |-> Get(q, "media", None), options |-> Get(q, "options", <<>>),
     answer_index |-> Get(q, "answer_index", 0)]

get_quiz(module_slug) ==
    IF ~dbAvail THEN Ok(<<>>)
    ELSE LET cursor == Find(quizquestion, [module_slug |-> module_slug])
         IN  Ok([i \in 1..Len(cursor) |-> QuizOut(cursor[i])])

GetQuiz(module_slug) ==
    /\ Started
    /\ Respond("get_quiz", module_slug, <<>>, get_quiz(module_slug))
    /\ UNCHANGED <<dbAvail, store, procs>>

\* ------------------------------------------------------------- favorites
\* database.create_document(collection_name, data): insert one document
create_document(coll, data) == Append(coll, data)

FavoriteIn(user_email, gesture_slug) ==
    [user_email |-> user_email, gesture_slug |-> gesture_slug]

FavoriteOut(f) ==
    [user_email |-> Get(f, "user_email", None), gesture_slug |-> Get(f, "gesture_slug", None)]

list_favorites(user_email) ==
    IF ~dbAvail THEN Ok(<<>>)
    ELSE LET favs == Find(favorite, [user_email |-> user_email])
         IN  Ok([i \in 1..Len(favs) |-> FavoriteOut(favs[i])])

ListFavorites(user_email) ==
    /\ Started
    /\ Respond("list_favorites", user_email, <<>>, list_favorites(user_email))
    /\ UNCHANGED <<dbAvail, store, procs>>

\* add_favorite without the existence check
AddFavorite_NoCheck(payload) ==
    /\ Started
    /\ IF ~dbAvail
         THEN /\ Respond("add_favorite", payload, FALSE, Ok([ok |-> FALSE]))
              /\ UNCHANGED store
         ELSE /\ favorite' = create_document(favorite, payload)
              /\ collections' = collections \cup {"favorite"}
              /\ UNCHANGED <<gesture, module, quizquestion, user, progress>>
              /\ Respond("add_favorite", payload,
                         FindOne(favorite, payload) # NoDoc,
                         Ok([ok |-> TRUE]))
    /\ UNCHANGED <<dbAvail, procs>>

AddFavorite(payload) ==
    /\ Started
    /\ IF ~dbAvail
         THEN /\ Respond("add_favorite", payload, FALSE, Ok([ok |-> FALSE]))
              /\ UNCHANGED store
         ELSE LET existing == FindOne(favorite, payload)
              IN  /\ IF existing # NoDoc
                       THEN UNCHANGED store
                       ELSE /\ favorite' = create_document(favorite, payload)
                            /\ collections' = collections \cup {"favorite"}
                            /\ UNCHANGED <<gesture, module, quizquestion, user, progress>>
                  /\ Respond("add_favorite", payload, existing # NoDoc, Ok([ok |-> TRUE]))
    /\ UNCHANGED <<dbAvail, procs>>

\* --------------------------------------------------------------- profile
\* the profile with the schema's field defaults
DefaultProfile_SchemaDefaults(email) ==
    [name |-> "Pengguna", email |-> email, points |-> 0, level |-> 1,
     streak |-> 0, badges |-> <<>>]

DefaultProfile(email) ==
    [name |-> "Pengguna", email |-> email, points |-> 120, level |-> 2,
     streak |-> 5, badges |-> <<"Pemula">>]

UserProfile(u) ==
    [name |-> Get(u, "name", "Pengguna"), email |-> Get(u, "email", None),
     avatar |-> Get(u, "avatar", None), points |-> Get(u, "points", 0),
     level |-> Get(u, "level", 1), streak |-> Get(u, "streak", 0),
     badges |-> Get(u, "badges", <<>>)]

FindUser(coll, email) == FindOne(coll, [email |-> email])

GetProfile(email) ==
    /\ Started
    /\ IF ~dbAvail
         THEN /\ Respond("get_profile", email, FALSE, HTTPException(404, "Not found"))
              /\ UNCHANGED store
         ELSE LET u == FindUser(user, email)
              IN  /\ IF u # NoDoc
                       THEN UNCHANGED store
                       ELSE /\ user' = create_document(user, DefaultProfile(email))
                            /\ collections' = collections \cup {"user"}
                            /\ UNCHANGED <<gesture, module, quizquestion, favorite, progress>>
                  /\ Respond("get_profile", email, u # NoDoc,
                             Ok(UserProfile(FindUser(user', email))))
    /\ UNCHANGED <<dbAvail, procs>>

\* -------------------------------------------------------------- progress
ProgressIn(user_email, module_slug, completed_lessons) ==
    [user_email |-> user_email, module_slug |-> module_slug,
     completed_lessons |-> completed_lessons]

ProgressKey(user_email, module_slug) ==
    [user_email |-> user_email, module_slug |-> module_slug]

\* find_one on the progress collection and the list read from it
completed_lessons(coll, user_email, module_slug) ==
    LET p == FindOne(coll, ProgressKey(user_email, module_slug))
    IN  IF p # NoDoc THEN Get(p, "completed_lessons", <<>>) ELSE <<>>

get_progress(user_email, module_slug) ==
    IF ~dbAvail THEN Ok([completed_lessons |-> <<>>])
    ELSE Ok([completed_lessons |-> completed_lessons(progress, user_email, module_slug)])

GetProgress(user_email, module_slug) ==
    /\ Started
    /\ Respond("get_progress", <<user_email, module_slug>>, <<>>,
               get_progress(user_email, module_slug))
    /\ UNCHANGED <<dbAvail, store, procs>>

\* {"$set": fields} applied to a document
SetFields(doc, fields) ==
    [k \in DOMAIN doc \cup DOMAIN fields |-> IF k \in DOMAIN fields THEN fields[k] ELSE doc[k]]

FirstIndex(coll, filter) ==
    CHOOSE i \in 1..Len(coll) :
        Matches(coll[i], filter) /\ \A j \in 1..(i - 1) : ~Matches(coll[j], filter)

\* pymongo update_one(filter, {"$set": fields}, upsert=True): the first matching
\* document gets the fields; with no match, one document made of the filter's
\* equalities and the fields is inserted
UpdateOneUpsert(coll, filter, fields) ==
    IF \E i \in 1..Len(coll) : Matches(coll[i], filter)
    THEN LET i == FirstIndex(coll, filter)
         IN  [coll EXCEPT ![i] = SetFields(coll[i], fields)]
    ELSE Append(coll, SetFields(filter, fields))

\* set_progress as an insert_one of the payload
set_progress_InsertOnly(coll, payload) ==
    Append(coll, [user_email |-> payload.user_email, module_slug |-> payload.module_slug,
                  completed_lessons |-> payload.completed_lessons])

\* set_progress with "$push": {"$each": ...} in the place of "$set"
set_progress_Merge(coll, payload) ==
    LET old == completed_lessons(coll, payload.user_email, payload.module_slug)
    IN  UpdateOneUpsert(coll, ProgressKey(payload.user_email, payload.module_slug),
                        [completed_lessons |-> old \o payload.completed_lessons])

set_progress(coll, payload) ==
    UpdateOneUpsert(coll, ProgressKey(payload.user_email, payload.module_slug),
                    [completed_lessons |-> payload.completed_lessons])

SetProgress(payload) ==
    /\ Started
    /\ IF ~dbAvail
         THEN /\ Respond("set_progress", payload, <<>>, Ok([ok |-> FALSE]))
              /\ UNCHANGED store
         ELSE /\ progress' = set_progress(progress, payload)
              /\ collections' = collections \cup {"progress"}
              /\ UNCHANGED <<gesture, module, quizquestion, favorite, user>>
              /\ Respond("set_progress", payload,
                         get_progress(payload.user_email, payload.module_slug).body.completed_lessons,
                         Ok([ok |-> TRUE]))
    /\ UNCHANGED <<dbAvail, procs>>

\* ------------------------------------------------- serial specifications
Catalog(Q, C, P, S) ==
    \/ \E q \in Q, c \in C, pg \in P, ps \in S : ListGestures(q, c, pg, ps)
    \/ \E s \in GestureSlugs : GetGesture(s)
    \/ ListModules
    \/ \E s \in ModuleSlugs : GetModule(s)
    \/ \E s \in ModuleSlugs : GetQuiz(s)

UserData(E, G, M, L) ==
    \/ \E e \in E : ListFavorites(e)
    \/ \E e \in E, g \in G : AddFavorite(FavoriteIn(e, g))
    \/ \E e \in E : GetProfile(e)
    \/ \E e \in E, m \in M : GetProgress(e, m)
    \/ \E e \in E, m \in M, l \in L : SetProgress(ProgressIn(e, m, l))

\* Spec: the process is started (and restarted) on whatever the store holds
\* and serves the catalogue routes one request at a time.
Next ==
    \/ EnsureSeedData
    \/ Catalog(Queries, Categories, Pages, PageSizes)

Spec == Init /\ [][Next]_vars

\* SpecAll: as Spec, with every route served.
NextAll ==
    \/ EnsureSeedData
    \/ Catalog(SmallQueries, SmallCategories, SmallPages, SmallPageSizes)
    \/ UserData(SmallEmails, SmallFavSlugs, ProgModules, SmallLessonLists)

SpecAll == Init /\ [][NextAll]_vars

\* SpecUser: a started service on a seeded store serves the per-user routes
\* one request at a time.
Seeded ==
    /\ gesture = SeedGestures
    /\ module = SeedModules
    /\ quizquestion = SeedQuizzes
    /\ favorite = <<>>
    /\ progress = <<>>
    /\ user \in {<<>>, <<OldUser>>}
    /\ collections = SeededNames \cup {n \in {"user"} : user # <<>>}

InitUser ==
    /\ dbAvail \in BOOLEAN
    /\ Seeded
    /\ last = [op |-> "ensure_seed_data", arg |-> <<>>,
               pre |-> <<TRUE, TRUE, TRUE>>, ret |-> Ok(None)]
    /\ procs = [p \in Procs |-> Idle]

NextUser == UserData(Emails, FavSlugs, ProgModules, LessonLists)

SpecUser == InitUser /\ [][NextUser]_vars

\* --------------------------------------------------- concurrent requests
\* The handlers are plain "def" routes, which the framework runs on worker
\* threads: requests interleave between their store calls.  Each of the
\* NumRequests requests is one call of one handler; a store call is one step.
Done(p, found, ret) ==
    procs' = [procs EXCEPT ![p] = [@ EXCEPT !.pc = "done", !.found = found, !.ret = ret]]

Call(p, op, arg, pc, found, ret) ==
    procs' = [procs EXCEPT ![p] = [pc |-> pc, op |-> op, arg |-> arg,
                                   found |-> found, ret |-> ret]]

\* add_favorite without the early return on an existing record
AddFavoriteFind_NoReturn(p, payload) ==
    /\ procs[p].pc = "idle"
    /\ IF ~dbAvail
         THEN Call(p, "add_favorite", payload, "done", FALSE, Ok([ok |-> FALSE]))
         ELSE LET existing == FindOne(favorite, payload)
              IN  Call(p, "add_favorite", payload, "insert", existing # NoDoc, [status |-> 0])
    /\ UNCHANGED <<dbAvail, store, last>>

\* add_favorite up to its find_one
AddFavoriteFind(p, payload) ==
    /\ procs[p].pc = "idle"
    /\ IF ~dbAvail
         THEN Call(p, "add_favorite", payload, "done", FALSE, Ok([ok |-> FALSE]))
         ELSE LET existing == FindOne(favorite, payload)
              IN  IF existing # NoDoc
                  THEN Call(p, "add_favorite", payload, "done", TRUE, Ok([ok |-> TRUE]))
                  ELSE Call(p, "add_favorite", payload, "insert", FALSE, [status |-> 0])
    /\ UNCHANGED <<dbAvail, store, last>>

\* add_favorite from its create_document
AddFavoriteInsert(p) ==
    /\ procs[p].pc = "insert" /\ procs[p].op = "add_favorite"
    /\ favorite' = create_document(favorite, procs[p].arg)
    /\ collections' = collections \cup {"favorite"}
    /\ Done(p, procs[p].found, Ok([ok |-> TRUE]))
    /\ UNCHANGED <<dbAvail, gesture, module, quizquestion, user, progress, last>>

\* get_profile up to its first find_one
GetProfileFind(p, email) ==
    /\ procs[p].pc = "idle"
    /\ IF ~dbAvail
         THEN Call(p, "get_profile", email, "done", FALSE, HTTPException(404, "Not found"))
         ELSE LET u == FindUser(user, email)
              IN  IF u # NoDoc
                  THEN Call(p, "get_profile", email, "done", TRUE, Ok(UserProfile(u)))
                  ELSE Call(p, "get_profile", email, "insert", FALSE, [status |-> 0])
    /\ UNCHANGED <<dbAvail, store, last>>

\* get_profile's create_document of the default profile
GetProfileInsert(p) ==
    /\ procs[p].pc = "insert" /\ procs[p].op = "get_profile"
    /\ user' = create_document(user, DefaultProfile(procs[p].arg))
    /\ collections' = collections \cup {"user"}
    /\ procs' = [procs EXCEPT ![p].pc = "reread"]
    /\ UNCHANGED <<dbAvail, gesture, module, quizquestion, favorite, progress, last>>

\* get_profile's second find_one and its response
GetProfileReread(p) ==
    /\ procs[p].pc = "reread"
    /\ Done(p, procs[p].found, Ok(UserProfile(FindUser(user, procs[p].arg))))
    /\ UNCHANGED <<dbAvail, store, last>>

\* set_progress: one update_one
SetProgressCall(p, payload) ==
    /\ procs[p].pc = "idle"
    /\ IF ~dbAvail
         THEN /\ Call(p, "set_progress", payload, "done", FALSE, Ok([ok |-> FALSE]))
              /\ UNCHANGED store
         ELSE /\ progress' = set_progress(progress, payload)
              /\ collections' = collections \cup {"progress"}
              /\ UNCHANGED <<gesture, module, quizquestion, favorite, user>>
              /\ Call(p, "set_progress", payload, "done", FALSE, Ok([ok |-> TRUE]))
    /\ UNCHANGED <<dbAvail, last>>

\* get_progress: one find_one
GetProgressCall(p, user_email, module_slug) ==
    /\ procs[p].pc = "idle"
    /\ Call(p, "get_progress", <<user_email, module_slug>>, "done", FALSE,
            get_progress(user_email, module_slug))
    /\ UNCHANGED <<dbAvail, store, last>>

NextConc ==
    \E p \in Procs :
        \/ \E e \in Emails, g \in SmallFavSlugs : AddFavoriteFind(p, FavoriteIn(e, g))
        \/ AddFavoriteInsert(p)
        \/ \E e \in Emails : GetProfileFind(p, e)
        \/ GetProfileInsert(p)
        \/ GetProfileReread(p)
        \/ \E e \in SmallEmails, m \in ProgModules, l \in LessonLists :
             SetProgressCall(p, ProgressIn(e, m, l))
        \/ \E e \in SmallEmails, m \in ProgModules : GetProgressCall(p, e, m)

SpecConc == InitUser /\ [][NextConc]_vars

\* ------------------------------------------------------------ properties
FavCount(coll, e, g) ==
    Len(SelectSeq(coll, LAMBDA f : f.user_email = e /\ f.gesture_slug = g))

UserCount(coll, e) == Len(SelectSeq(coll, LAMBDA u : u.email = e))

\* C1 (favorite idempotence): on an available store every add_favorite call
\* served after the previous one has completed returns {ok: true} and leaves
\* exactly one favorite record for its (user_email, gesture_slug); however many
\* adds were made, no pair is ever stored twice.
C1_FavoriteIdempotent ==
    /\ \A e \in Emails, g \in FavSlugs : FavCount(favorite, e, g) <= 1
    /\ (last.op = "add_favorite" /\ dbAvail) =>
          /\ FavCount(favorite, last.arg.user_email, last.arg.gesture_slug) = 1
          /\ last.ret = [status |-> 200, body |-> [ok |-> TRUE]]

\* the second of two adds of one pair: it found the record of the first
C1_Witness ==
    /\ dbAvail /\ last.op = "add_favorite" /\ last.pre = TRUE
    /\ last.arg = [user_email |-> "ani@x.id", gesture_slug |-> "zzz"]
    /\ FavCount(favorite, "ani@x.id", "zzz") = 1
    /\ last.ret.body.ok
    /\ Len(favorite) = 3

OtherProgress(coll, e, m) ==
    SelectSeq(coll, LAMBDA d : ~(d.user_email = e /\ d.module_slug = m))

\* C2 (progress upsert replaces): a set_progress call on an available store
\* leaves get_progress of its (user_email, module_slug) returning exactly the
\* submitted list, whatever list was stored before, in one record, and leaves
\* the progress records of every other pair as they were.
C2_ProgressReplaces ==
    [][(last'.op = "set_progress" /\ dbAvail) =>
          LET e == last'.arg.user_email
              m == last'.arg.module_slug
          IN  /\ completed_lessons(progress', e, m) = last'.arg.completed_lessons
              /\ Len(progress') = Len(OtherProgress(progress', e, m)) + 1
              /\ OtherProgress(progress', e, m) = OtherProgress(progress, e, m)
              /\ last'.ret = [status |-> 200, body |-> [ok |-> TRUE]]]_vars

\* [0,1] was stored, then [2] was submitted for the same pair, next to the
\* record of another pair
C2_Witness ==
    /\ dbAvail /\ last.op = "set_progress"
    /\ last.pre = <<0, 1>> /\ last.arg.completed_lessons = <<2>>
    /\ get_progress(last.arg.user_email, last.arg.module_slug).body.completed_lessons = <<2>>
    /\ Len(progress) = 2

ProfileDefaults(e) ==
    [name |-> "Pengguna", email |-> e, avatar |-> None, points |-> 120, level |-> 2,
     streak |-> 5, badges |-> <<"Pemula">>]

StoredDefaults(e) ==
    [name |-> "Pengguna", email |-> e, points |-> 120, level |-> 2,
     streak |-> 5, badges |-> <<"Pemula">>]

\* C3 (lazy profile creation): on an available store, get_profile of an email
\* with no user record appends exactly one record with name "Pengguna",
\* points 120, level 2, streak 5, badges ["Pemula"] and returns those values;
\* get_profile of an email that has a record adds none, and returns the same
\* default values when the record is the lazily created one.
C3_LazyProfile ==
    [][(last'.op = "get_profile" /\ dbAvail) =>
          LET e == last'.arg
          IN  /\ UserCount(user', e) = 1
              /\ UserCount(user, e) = 0 =>
                    /\ user' = Append(user, StoredDefaults(e))
                    /\ last'.ret = [status |-> 200, body |-> ProfileDefaults(e)]
              /\ UserCount(user, e) > 0 =>
                    /\ user' = user
                    /\ StoredDefaults(e) \in {user[i] : i \in 1..Len(user)} =>
                          last'.ret = [status |-> 200, body |-> ProfileDefaults(e)]]_vars

\* a second fetch: the record was found, none was added, the defaults returned
C3_Witness ==
    /\ dbAvail /\ last.op = "get_profile" /\ last.pre = TRUE
    /\ last.arg = "ani@x.id"
    /\ UserCount(user, "ani@x.id") = 1
    /\ last.ret.body.points = 120 /\ last.ret.body.badges = <<"Pemula">>

\* C4 (seed idempotence): on an available store the seed step treats gesture,
\* module and quizquestion independently: a collection that is absent or
\* holds no document receives the fixed batch (3 gestures, 2 modules, 1 quiz
\* question), a collection that holds a document is left as it is; a seed
\* step that follows a seed step changes nothing.
C4_SeedIdempotent ==
    [][(last'.op = "ensure_seed_data" /\ dbAvail) =>
          /\ IF "gesture" \notin collections \/ Len(gesture) = 0
               THEN gesture' = SeedGestures /\ Len(gesture') = 3
               ELSE gesture' = gesture
          /\ IF "module" \notin collections \/ Len(module) = 0
               THEN module' = SeedModules /\ Len(module') = 2
               ELSE module' = module
          /\ IF "quizquestion" \notin collections \/ Len(quizquestion) = 0
               THEN quizquestion' = SeedQuizzes /\ Len(quizquestion') = 1
               ELSE quizquestion' = quizquestion
          /\ last.op = "ensure_seed_data" =>
                UNCHANGED <<gesture, module, quizquestion>>]_vars

\* a seed step that found the three seeded collections populated
C4_Witness ==
    /\ dbAvail /\ last.op = "ensure_seed_data"
    /\ last.pre = <<FALSE, FALSE, FALSE>>
    /\ gesture = SeedGestures /\ module = SeedModules /\ quizquestion = SeedQuizzes

\* C5 (degrade on unavailable store): with db None the list routes return an
\* empty list, get_progress returns {completed_lessons: []}, the single-item
\* reads fail with 404, the writes return {ok: false}, the seed step does
\* nothing, and no operation changes the store or fails otherwise.
C5_DegradeUnavailable ==
    /\ [](~dbAvail =>
            /\ last.op \in {"list_gestures", "list_modules", "get_quiz", "list_favorites"}
                  => last.ret = [status |-> 200, body |-> <<>>]
            /\ last.op = "get_progress"
                  => last.ret = [status |-> 200, body |-> [completed_lessons |-> <<>>]]
            /\ last.op \in {"get_gesture", "get_module", "get_profile"}
                  => last.ret.status = 404
            /\ last.op \in {"add_favorite", "set_progress"}
                  => last.ret = [status |-> 200, body |-> [ok |-> FALSE]]
            /\ last.ret.status \in {0, 200, 404})
    /\ [][~dbAvail => UNCHANGED store]_vars

\* a write refused on an unavailable store
C5_Witness ==
    /\ ~dbAvail /\ last.op = "add_favorite"
    /\ last.ret = [status |-> 200, body |-> [ok |-> FALSE]]
    /\ favorite = <<>>

\* the filter as the specification words it: substring, not pattern
ClaimedFilter(q, category, g) ==
    /\ Truthy(q) => SubstringI(q[1], g.name)
    /\ category \notin {None, ""} => g.category = category

ClaimedSummary(g) ==
    [name |-> g.name, slug |-> g.slug, category |-> g.category,
     difficulty |-> IF "difficulty" \in DOMAIN g THEN g.difficulty ELSE "Pemula",
     thumbnail |-> IF "thumbnail" \in DOMAIN g THEN g.thumbnail ELSE None]

\* positions (page-1)*page_size up to, not including, page*page_size
ClaimedPage(q, category, page, page_size) ==
    LET matched == SelectSeq(gesture, LAMBDA g : ClaimedFilter(q, category, g))
        from == (page - 1) * page_size
        upto == IF page * page_size < Len(matched) THEN page * page_size ELSE Len(matched)
        n == IF upto > from /\ from >= 0 THEN upto - from ELSE 0
    IN  [i \in 1..n |-> ClaimedSummary(matched[from + i])]

\* C6 (pagination bounds): on an available store list_gestures returns, in
\* insertion order, the gestures at positions (page-1)*page_size up to but not
\* including page*page_size of those whose name contains q (case-insensitive)
\* and whose category is the one given.
C6_PaginationBounds ==
    (last.op = "list_gestures" /\ dbAvail) =>
        last.ret = [status |-> 200,
                    body |-> ClaimedPage(last.arg[1], last.arg[2], last.arg[3], last.arg[4])]

\* C7 (unknown slug): get_gesture and get_module fail with 404 whenever no
\* document has the slug, and answer 200 only when one has, with that slug in
\* the detail.
C7_UnknownSlug ==
    /\ last.op = "get_gesture" =>
          /\ (\A i \in 1..Len(gesture) : gesture[i].slug # last.arg) => last.ret.status = 404
          /\ last.ret.status = 200 =>
                /\ \E i \in 1..Len(gesture) : gesture[i].slug = last.arg
                /\ last.ret.body.slug = last.arg
          /\ last.ret.status \in {200, 404}
    /\ last.op = "get_module" =>
          /\ (\A i \in 1..Len(module) : module[i].slug # last.arg) => last.ret.status = 404
          /\ last.ret.status = 200 =>
                /\ \E i \in 1..Len(module) : module[i].slug = last.arg
                /\ last.ret.body.slug = last.arg
          /\ last.ret.status \in {200, 404}

\* get_gesture("zzz") on the seeded store
C7_Witness ==
    /\ dbAvail /\ gesture = SeedGestures
    /\ last.op = "get_gesture" /\ last.arg = "zzz"
    /\ last.ret = [status |-> 404, detail |-> "Gesture not found"]

\* ----------------------------------------------- concurrent properties
Inserted(p, op) == procs[p].op = op /\ procs[p].pc \in {"reread", "done"} /\ ~procs[p].found

\* C8 (favorite-add race): add_favorite checks and inserts in two store calls,
\* so on an available store the records of a pair are exactly those inserted
\* by the calls whose check found none - one per such call, two when two calls
\* checked before either inserted - and every completed call returns {ok: true}.
C8_FavoriteRace ==
    dbAvail =>
      /\ \A e \in Emails, g \in SmallFavSlugs :
            FavCount(favorite, e, g) =
              Cardinality({p \in Procs : /\ Inserted(p, "add_favorite")
                                         /\ procs[p].arg = FavoriteIn(e, g)})
      /\ \A p \in Procs :
            (procs[p].op = "add_favorite" /\ procs[p].pc = "done") =>
                procs[p].ret = [status |-> 200, body |-> [ok |-> TRUE]]

\* two calls for one pair, both answered {ok: true}, and the pair stored twice
C8_Witness ==
    /\ dbAvail
    /\ \E p1, p2 \in Procs :
          /\ p1 # p2
          /\ procs[p1].op = "add_favorite" /\ procs[p2].op = "add_favorite"
          /\ procs[p1].arg = procs[p2].arg
          /\ procs[p1].pc = "done" /\ procs[p2].pc = "done"
          /\ procs[p1].ret.body.ok /\ procs[p2].ret.body.ok
          /\ FavCount(favorite, procs[p1].arg.user_email, procs[p1].arg.gesture_slug) = 2

\* C9 (user email uniqueness): under any interleaving of get_profile requests
\* the user collection holds at most one record per email.
C9_UserEmailUnique ==
    \A e \in Emails : UserCount(user, e) <= 1

SubmittedLists(e, m) ==
    {procs[p].arg.completed_lessons :
        p \in {x \in Procs : /\ procs[x].op = "set_progress" /\ procs[x].pc = "done"
                             /\ procs[x].arg.user_email = e
                             /\ procs[x].arg.module_slug = m}}

\* C10 (progress last-writer-wins): on an available store, whatever the
\* interleaving of the set_progress calls for a pair, every call returns
\* {ok: true} and, once calls have completed, get_progress of the pair returns
\* in full the list one of them submitted.
C10_LastWriterWins ==
    dbAvail =>
      /\ \A p \in Procs :
            (procs[p].op = "set_progress" /\ procs[p].pc = "done") =>
                procs[p].ret = [status |-> 200, body |-> [ok |-> TRUE]]
      /\ \A e \in SmallEmails, m \in ProgModules :
            SubmittedLists(e, m) # {} =>
                get_progress(e, m).body.completed_lessons \in SubmittedLists(e, m)

\* two completed calls for one pair with different lists; the first request's
\* list is the one stored
C10_Witness ==
    /\ dbAvail
    /\ \A p \in Procs : procs[p].pc = "done"
    /\ \E p1, p2 \in Procs :
          /\ p1 < p2
          /\ procs[p1].op = "set_progress" /\ procs[p2].op = "set_progress"
          /\ procs[p1].arg.user_email = procs[p2].arg.user_email
          /\ procs[p1].arg.module_slug = procs[p2].arg.module_slug
          /\ procs[p1].arg.completed_lessons # procs[p2].arg.completed_lessons
          /\ get_progress(procs[p1].arg.user_email, procs[p1].arg.module_slug)
                 .body.completed_lessons = procs[p1].arg.completed_lessons

====
